---- MODULE Spec2Model ----
(***************************************************************************)
(* A model of daily_nhl_team_stats.py: one batch run resolves the season,  *)
(* opens a database connection, fetches the team directory, fetches and    *)
(* maps each team's season summary, upserts one row per team and commits   *)
(* once.  Strings are sequences of one-character strings, JSON values are  *)
(* tagged records, HTTP exchanges are records describing what the request  *)
(* produced.                                                               *)
(***************************************************************************)
EXTENDS Integers, Sequences, FiniteSets, TLC

VARIABLES
    pc,         \* position of main(): idle, connect, ext, dir, fetch, lookup, upsert, commit, close, print, done, aborted
    runs,       \* number of process invocations started so far
    clock,      \* database server time
    today,      \* date seen by infer_current_season
    SEASON,     \* os.environ.get("NHL_SEASON")
    season,     \* local `season` of main()
    conn,       \* connection: none, open, closed
    cur,        \* cursor: none, open, closed
    db,         \* committed database: [ext, stats]
    txn,        \* the open transaction's view of the database
    txnStart,   \* now() of the open transaction
    dbAtStart,  \* committed database when the run started
    raw,        \* body of the directory response
    teams,      \* local `teams` of main()
    i,          \* 1-based index of the loop `for t in teams`
    resp,       \* last HTTP exchange made by nhl_get
    summary,    \* local `summary` of main()
    team_id,    \* local `team_id` of main()
    upserts,    \* local `upserts` of main()
    out,        \* what the run printed
    exc,        \* the exception that left main(), if any
    log         \* what the run did, in order

vars == <<pc, runs, clock, today, SEASON, season, conn, cur, db, txn, txnStart,
          dbAtStart, raw, teams, i, resp, summary, team_id, upserts, out, exc, log>>

(***************************************************************************)
(* Bounds of the model.                                                    *)
(***************************************************************************)
MaxRuns == 2
MaxClock == 1
MaxRaw == 2
MaxYear == 2026
NumYears == 3

(***************************************************************************)
(* Strings.                                                                *)
(***************************************************************************)
UpperAlpha == <<"A","B","C","D","E","F","G","H","I","J","K","L","M",
                "N","O","P","Q","R","S","T","U","V","W","X","Y","Z">>
LowerAlpha == <<"a","b","c","d","e","f","g","h","i","j","k","l","m",
                "n","o","p","q","r","s","t","u","v","w","x","y","z">>
DigitChars == <<"0","1","2","3","4","5","6","7","8","9">>

Range(s) == {s[k] : k \in DOMAIN s}

\* str.lower() on one character ("E'" stands for an accented capital E, "e'" for its small form)
LowerChar(c) ==
    IF \E k \in DOMAIN UpperAlpha : UpperAlpha[k] = c
    THEN LowerAlpha[CHOOSE k \in DOMAIN UpperAlpha : UpperAlpha[k] = c]
    ELSE IF c = "E'" THEN "e'" ELSE c

\* str.upper() on one character
UpperChar(c) ==
    IF \E k \in DOMAIN LowerAlpha : LowerAlpha[k] = c
    THEN UpperAlpha[CHOOSE k \in DOMAIN LowerAlpha : LowerAlpha[k] = c]
    ELSE IF c = "e'" THEN "E'" ELSE c

Lower(s) == [k \in DOMAIN s |-> LowerChar(s[k])]

Upper(s) == [k \in DOMAIN s |-> UpperChar(s[k])]

\* NFKD decomposition followed by removal of the combining marks
StripAccent(c) == IF c = "e'" THEN "e" ELSE IF c = "E'" THEN "E" ELSE c

Unaccent(s) == [k \in DOMAIN s |-> StripAccent(s[k])]

\* the class [a-z0-9] of the slug's regular expression
IsSlugChar(c) == c \in Range(LowerAlpha) \cup Range(DigitChars)

RECURSIVE DropNonSlug(_)
DropNonSlug(s) ==
    IF s = <<>> \/ IsSlugChar(Head(s)) THEN s ELSE DropNonSlug(Tail(s))

\* re.sub(r"[^a-z0-9]+", "_", s)
RECURSIVE SubRuns(_)
SubRuns(s) ==
    IF s = <<>> THEN <<>>
    ELSE IF IsSlugChar(Head(s)) THEN <<Head(s)>> \o SubRuns(Tail(s))
    ELSE <<"_">> \o SubRuns(DropNonSlug(Tail(s)))

RECURSIVE LStrip(_)
LStrip(s) == IF s # <<>> /\ Head(s) = "_" THEN LStrip(Tail(s)) ELSE s

RECURSIVE RStrip(_)
RStrip(s) ==
    IF s # <<>> /\ s[Len(s)] = "_" THEN RStrip(SubSeq(s, 1, Len(s) - 1)) ELSE s

slug_from_name(name) == RStrip(LStrip(SubRuns(Lower(Unaccent(name)))))

\* f"{n}" for a non-negative integer
RECURSIVE FormatInt(_)
FormatInt(n) ==
    IF n < 10 THEN <<DigitChars[n + 1]>>
    ELSE FormatInt(n \div 10) \o <<DigitChars[(n % 10) + 1]>>

(***************************************************************************)
(* JSON values and Python truthiness.                                      *)
(***************************************************************************)
JNull == [t |-> "null", n |-> 0]
JInt(n) == [t |-> "int", n |-> n]
SNull == [t |-> "null", v |-> <<>>]
SStr(s) == [t |-> "str", v |-> s]

\* dict.get(key): None when the key is absent
Get(d, k) == IF k \in DOMAIN d THEN d[k] ELSE JNull
GetStr(d, k) == IF k \in DOMAIN d THEN d[k] ELSE SNull

\* bool(x) of a number or None
Truthy(x) == x.t = "int" /\ x.n # 0
\* bool(x) of a string or None
TruthyStr(x) == x.t = "str" /\ x.v # <<>>

\* a or b
PyOr(a, b) == IF Truthy(a) THEN a ELSE b
PyOrStr(a, b) == IF TruthyStr(a) THEN a ELSE b

(***************************************************************************)
(* Season Resolver.                                                        *)
(***************************************************************************)
StartYearOffByOne(d) == IF d.month <= 7 THEN d.year - 1 ELSE d.year

StartYear(d) == IF d.month < 7 THEN d.year - 1 ELSE d.year

infer_current_season(d) == FormatInt(StartYear(d)) \o FormatInt(StartYear(d) + 1)

\* SEASON or infer_current_season()
ResolveSeason(env, d) == IF TruthyStr(env) THEN env.v ELSE infer_current_season(d)

(***************************************************************************)
(* HTTP.  An exchange says whether the transport failed, and if not the    *)
(* status, whether the body parses as JSON, and the parsed body.           *)
(***************************************************************************)
Exchange(fail, status, parses, body) ==
    [fail |-> fail, status |-> status, parses |-> parses, body |-> body]

\* requests' Response.raise_for_status
RaisesForStatus(status) == status >= 400 /\ status < 600

\* the exception nhl_get raises on an exchange, "none" when it returns r.json()
nhl_get(x) ==
    IF x.fail # "none" THEN x.fail
    ELSE IF RaisesForStatus(x.status) THEN "HTTPError"
    ELSE IF ~x.parses THEN "JSONDecodeError"
    ELSE "none"

(***************************************************************************)
(* Team Directory Fetcher.                                                 *)
(***************************************************************************)
TeamName(t) ==
    PyOrStr(PyOrStr(GetStr(t, "fullName"), GetStr(t, "name")), GetStr(t, "teamName"))

KeepIfCode(t) == TruthyStr(GetStr(t, "triCode"))

KeepTeam(t) == TruthyStr(GetStr(t, "triCode")) /\ TruthyStr(TeamName(t))

NormalizeTeam(t) == [code |-> Lower(GetStr(t, "triCode").v), name |-> TeamName(t).v]

RECURSIVE fetch_active_teams(_)
fetch_active_teams(data) ==
    IF data = <<>> THEN <<>>
    ELSE (IF KeepTeam(Head(data)) THEN <<NormalizeTeam(Head(data))>> ELSE <<>>)
         \o fetch_active_teams(Tail(data))

(***************************************************************************)
(* Team Stat Fetcher.                                                      *)
(***************************************************************************)
StatKeys == {"gp", "w", "l", "ties", "ot", "points", "points_pct", "rw", "row",
             "so_wins", "gf", "ga", "gf_per_gp", "ga_per_gp", "pp_pct", "pk_pct",
             "net_pp_pct", "net_pk_pct", "shots_per_gp", "sa_per_gp", "fow_pct"}

\* the source field names each key of `out` is read from, in the order tried
SourceNames ==
    [k \in StatKeys |->
        CASE k = "gp" -> <<"gamesPlayed">>
          [] k = "w" -> <<"wins">>
          [] k = "l" -> <<"losses">>
          [] k = "ties" -> <<>>
          [] k = "ot" -> <<"otLosses", "overtimeLosses">>
          [] k = "points" -> <<"points">>
          [] k = "points_pct" -> <<"pointsPct">>
          [] k = "rw" -> <<"regulationWins">>
          [] k = "row" -> <<"regulationPlusOtWins", "row">>
          [] k = "so_wins" -> <<"shootoutWins">>
          [] k = "gf" -> <<"goalsFor">>
          [] k = "ga" -> <<"goalsAgainst">>
          [] k = "gf_per_gp" -> <<"goalsForPerGame">>
          [] k = "ga_per_gp" -> <<"goalsAgainstPerGame">>
          [] k = "pp_pct" -> <<"powerPlayPct">>
          [] k = "pk_pct" -> <<"penaltyKillPct">>
          [] k = "net_pp_pct" -> <<"netPowerPlayPct">>
          [] k = "net_pk_pct" -> <<"netPenaltyKillPct">>
          [] k = "shots_per_gp" -> <<"shotsForPerGame">>
          [] k = "sa_per_gp" -> <<"shotsAgainstPerGame">>
          [] k = "fow_pct" -> <<"faceoffWinPct">>]

MapField(k, data) ==
    LET names == SourceNames[k] IN
    IF Len(names) = 0 THEN JNull
    ELSE IF Len(names) = 1 THEN Get(data, names[1])
    ELSE PyOr(Get(data, names[1]), Get(data, names[2]))

\* the dict `out`
MapSummary(data) == [k \in StatKeys |-> MapField(k, data)]

AllNull == [k \in StatKeys |-> JNull]

\* a value of `summary`: None, or a dict
NoSummary == [some |-> FALSE, val |-> AllNull]
SomeSummary(d) == [some |-> TRUE, val |-> d]

\* what fetch_team_season_summary does with an exchange: the exception it lets
\* through ("none" when it returns) and the value it returns
fetch_team_season_summary(x) ==
    LET e == nhl_get(x) IN
    IF e = "HTTPError" THEN [raised |-> "none", ret |-> NoSummary]
    ELSE IF e # "none" THEN [raised |-> e, ret |-> NoSummary]
    ELSE [raised |-> "none", ret |-> SomeSummary(MapSummary(x.body))]

PyNotNever(s) == FALSE

PyNotOrAllNull(s) == ~s.some \/ \A k \in DOMAIN s.val : s.val[k] = JNull

\* `not summary`: None and the empty dict are falsy
PyNot(s) == ~s.some \/ DOMAIN s.val = {}

(***************************************************************************)
(* Identifier Resolver.                                                    *)
(***************************************************************************)
Str_BostonBruins == <<"B","o","s","t","o","n"," ","B","r","u","i","n","s">>
Str_boston_bruins_upper == <<"B","O","S","T","O","N"," ","B","R","U","I","N","S">>
Str_MontrealCanadiens ==
    <<"M","o","n","t","r","e'","a","l"," ","C","a","n","a","d","i","e","n","s">>
Str_BOS == <<"B","O","S">>
Str_MTL == <<"M","T","L">>

\* the reference table nhl_teams, read-only to the program
nhl_teams == {[team_name |-> Str_boston_bruins_upper, team_id |-> <<"b","o","s","0","1">>]}

\* the team_id values the SELECT ... LIMIT 1 can produce, or the slug
team_id_from_db_or_slug(team_name) ==
    LET hit == {r \in nhl_teams :
                  Lower(Unaccent(r.team_name)) = Lower(Unaccent(team_name))} IN
    IF hit # {} THEN {r.team_id : r \in hit} ELSE {slug_from_name(team_name)}

(***************************************************************************)
(* Persistence Layer.                                                      *)
(***************************************************************************)
KeyCols == {"team_id", "season"}
\* the columns assigned from EXCLUDED by ON CONFLICT ... DO UPDATE SET
SetCols == StatKeys \cup {"source"}
Columns == KeyCols \cup SetCols \cup {"ingested_at"}

\* the column default of ingested_at, used by the INSERT branch
InsertDefaultIngestedAt(now) == now

SameKey(r, row) == r["team_id"] = row["team_id"] /\ r["season"] = row["season"]

InsertAlways(table, row, now) ==
    table \cup {[c \in Columns |->
                   IF c = "ingested_at" THEN InsertDefaultIngestedAt(now) ELSE row[c]]}

\* UPSERT_SQL executed with the parameters `row` in a transaction started at `now`
UpsertRow(table, row, now) ==
    IF \E r \in table : SameKey(r, row)
    THEN {IF SameKey(r, row)
          THEN [c \in Columns |->
                  IF c \in SetCols THEN row[c]
                  ELSE IF c = "ingested_at" THEN now
                  ELSE r[c]]
          ELSE r : r \in table}
    ELSE table \cup {[c \in Columns |->
                        IF c = "ingested_at" THEN InsertDefaultIngestedAt(now)
                        ELSE row[c]]}

\* the dict `row` built by main()
BuildRow(tid, seas, summ, code) ==
    [c \in Columns \ {"ingested_at"} |->
        IF c = "team_id" THEN tid
        ELSE IF c = "season" THEN seas
        ELSE IF c = "source" THEN <<"api-web.nhle.com/">> \o code \o <<"/">> \o seas
        ELSE summ[c]]

AutocommitOn == TRUE

\* conn.autocommit = False
Autocommit == FALSE

CountUpsertTwice(n) == n + 2

\* upserts += 1
CountUpsert(n) == n + 1

(***************************************************************************)
(* Inputs: dates, environments, HTTP exchanges.                            *)
(***************************************************************************)
Date(y, m) == [year |-> y, month |-> m]

Str_20242025 == <<"2","0","2","4","2","0","2","5">>

\* the dates and NHL_SEASON values a run of the whole program is started with
RunDates == {Date(2025, 7)}
RunEnvs == {SNull, SStr(Str_20242025)}

\* the dates and NHL_SEASON values the season resolver is exercised with
AllDates == {Date(y, m) : y \in (MaxYear - NumYears + 1)..MaxYear, m \in 1..12}
AllEnvs == {SNull, SStr(<<>>), SStr(Str_20242025), SStr(<<"x">>)}

EntryBos == ("triCode" :> SStr(Str_BOS)) @@ ("fullName" :> SStr(Str_BostonBruins))
EntryMtl == ("triCode" :> SStr(Str_MTL)) @@ ("name" :> SStr(Str_MontrealCanadiens))
EntryNoName == ("triCode" :> SStr(<<"X","X","X">>))

OkExchange(body) == Exchange("none", 200, TRUE, body)
NoExchange == Exchange("none", 0, FALSE, <<>>)
FailedExchanges ==
    {Exchange("ConnectionError", 0, FALSE, <<>>), Exchange("Timeout", 0, FALSE, <<>>)}
NotFound == Exchange("none", 404, FALSE, <<>>)
ServerError == Exchange("none", 500, FALSE, <<>>)

\* the directory exchanges a run of the whole program meets
RunDirExchanges ==
    {Exchange("ConnectionError", 0, FALSE, <<>>), ServerError,
     OkExchange(<<EntryBos, EntryMtl>>), OkExchange(<<EntryNoName, EntryBos, EntryBos>>)}

\* every directory entry over a few values of the four fields read
EntryValues(k) ==
    CASE k = "triCode" -> {SStr(<<>>), SStr(<<"m","T","l">>)}
      [] k = "fullName" -> {SNull, SStr(<<>>), SStr(<<"A">>)}
      [] k = "name" -> {SStr(<<"B">>)}
      [] k = "teamName" -> {SStr(<<"C">>)}
EntryKeys == {"triCode", "fullName", "name", "teamName"}
AllEntries ==
    UNION {{e \in [D -> UNION {EntryValues(k) : k \in D}] :
              \A k \in D : e[k] \in EntryValues(k)} : D \in SUBSET EntryKeys}
AllRawLists == UNION {[1..n -> AllEntries] : n \in 0..MaxRaw}
AllDirExchanges == {OkExchange(l) : l \in AllRawLists}

BodyBos == ("gamesPlayed" :> JInt(10)) @@ ("wins" :> JInt(7)) @@ ("losses" :> JInt(3))
           @@ ("points" :> JInt(14))
BodyEmpty == <<>>

\* the stats exchanges a run of the whole program meets
RunStatExchanges ==
    {Exchange("ConnectionError", 0, FALSE, <<>>), NotFound, ServerError,
     OkExchange(BodyBos), OkExchange(BodyEmpty)}

\* every stats body over a few values of the four alternate-name fields
AltKeys == {"otLosses", "overtimeLosses", "regulationPlusOtWins", "row"}
AltValues == {JNull, JInt(0), JInt(2), JInt(3)}
AllBodies == UNION {[D -> AltValues] : D \in SUBSET AltKeys}
AllStatExchanges ==
    FailedExchanges \cup {NotFound, ServerError} \cup {OkExchange(b) : b \in AllBodies}

(***************************************************************************)
(* Run Orchestrator: the steps of main().                                  *)
(***************************************************************************)
NoOut == [some |-> FALSE, n |-> 0, season |-> <<>>]

Event(op, idx, seas, code, got) ==
    [op |-> op, idx |-> idx, season |-> seas, code |-> code, got |-> got]

\* where the loop `for t in teams` goes with index j
LoopPc(j, ts) == IF j > Len(ts) THEN "commit" ELSE "fetch"

Init ==
    /\ pc = "idle"
    /\ runs = 0
    /\ clock = 0
    /\ today = Date(2025, 7)
    /\ SEASON = SNull
    /\ season = <<>>
    /\ conn = "none"
    /\ cur = "none"
    /\ db = [ext |-> FALSE, stats |-> {}]
    /\ txn = [ext |-> FALSE, stats |-> {}]
    /\ txnStart = 0
    /\ dbAtStart = [ext |-> FALSE, stats |-> {}]
    /\ raw = <<>>
    /\ teams = <<>>
    /\ i = 1
    /\ resp = NoExchange
    /\ summary = NoSummary
    /\ team_id = <<>>
    /\ upserts = 0
    /\ out = NoOut
    /\ exc = "none"
    /\ log = <<>>

\* the process starts: SEASON is read and main() resolves the season
Start(dates, envs) ==
    /\ pc \in {"idle", "done", "aborted"}
    /\ runs < MaxRuns
    /\ \E d \in dates, e \in envs :
        /\ today' = d
        /\ SEASON' = e
        /\ season' = ResolveSeason(e, d)
    /\ runs' = runs + 1
    /\ pc' = "connect"
    /\ conn' = "none"
    /\ cur' = "none"
    /\ txn' = db
    /\ dbAtStart' = db
    /\ raw' = <<>>
    /\ teams' = <<>>
    /\ i' = 1
    /\ resp' = NoExchange
    /\ summary' = NoSummary
    /\ team_id' = <<>>
    /\ upserts' = 0
    /\ out' = NoOut
    /\ exc' = "none"
    /\ log' = <<>>
    /\ UNCHANGED <<clock, db, txnStart>>

\* conn = psycopg2.connect(DB_URL); conn.autocommit = False; cur = conn.cursor()
Connect ==
    /\ pc = "connect"
    /\ conn' = "open"
    /\ cur' = "open"
    /\ pc' = "ext"
    /\ UNCHANGED <<runs, clock, today, SEASON, season, db, txn, txnStart, dbAtStart, raw,
                   teams, i, resp, summary, team_id, upserts, out, exc, log>>

\* cur.execute("CREATE EXTENSION IF NOT EXISTS unaccent;") opens the transaction
CreateExtension ==
    /\ pc = "ext"
    /\ \E now \in clock..MaxClock :
        /\ clock' = now
        /\ txnStart' = now
    /\ txn' = [txn EXCEPT !.ext = TRUE]
    /\ db' = IF Autocommit THEN txn' ELSE db
    /\ pc' = "dir"
    /\ UNCHANGED <<runs, today, SEASON, season, conn, cur, dbAtStart, raw, teams, i, resp,
                   summary, team_id, upserts, out, exc, log>>

\* a database call raises: connect, execute or commit
DbError ==
    /\ pc \in {"connect", "ext", "lookup", "upsert", "commit"}
    /\ pc' = "aborted"
    /\ exc' = "psycopg2.Error"
    /\ log' = Append(log, Event("raise", i, season, <<>>, pc))
    /\ UNCHANGED <<runs, clock, today, SEASON, season, conn, cur, db, txn, txnStart,
                   dbAtStart, raw, teams, i, resp, summary, team_id, upserts, out>>

\* teams = fetch_active_teams(); upserts = 0
FetchTeams(exchanges) ==
    /\ pc = "dir"
    /\ \E x \in exchanges :
        /\ resp' = x
        /\ IF nhl_get(x) # "none"
           THEN /\ pc' = "aborted"
                /\ exc' = nhl_get(x)
                /\ log' = Append(log, Event("raise", i, season, <<>>, pc))
                /\ UNCHANGED <<raw, teams>>
           ELSE /\ raw' = x.body
                /\ teams' = fetch_active_teams(x.body)
                /\ pc' = LoopPc(1, teams')
                /\ UNCHANGED <<exc, log>>
    /\ i' = 1
    /\ upserts' = 0
    /\ UNCHANGED <<runs, clock, today, SEASON, season, conn, cur, db, txn, txnStart,
                   dbAtStart, summary, team_id, out>>

\* summary = fetch_team_season_summary(t["code"], season); if not summary: continue
FetchStats(exchanges) ==
    /\ pc = "fetch"
    /\ \E x \in exchanges :
        LET r == fetch_team_season_summary(x)
            got == IF r.raised # "none" THEN "raise"
                   ELSE IF r.ret.some THEN "data" ELSE "none" IN
        /\ resp' = x
        /\ log' = Append(log, Event("fetch", i, season, Upper(teams[i].code), got))
        /\ IF r.raised # "none"
           THEN /\ pc' = "aborted"
                /\ exc' = r.raised
                /\ UNCHANGED <<summary, i>>
           ELSE /\ summary' = r.ret
                /\ UNCHANGED exc
                /\ IF PyNot(r.ret)
                   THEN /\ i' = i + 1
                        /\ pc' = LoopPc(i + 1, teams)
                   ELSE /\ pc' = "lookup"
                        /\ UNCHANGED i
    /\ UNCHANGED <<runs, clock, today, SEASON, season, conn, cur, db, txn, txnStart,
                   dbAtStart, raw, teams, team_id, upserts, out>>

\* team_id = team_id_from_db_or_slug(cur, t["name"])
Lookup ==
    /\ pc = "lookup"
    /\ \E id \in team_id_from_db_or_slug(teams[i].name) : team_id' = id
    /\ log' = Append(log, Event("lookup", i, season, teams[i].code, ""))
    /\ pc' = "upsert"
    /\ UNCHANGED <<runs, clock, today, SEASON, season, conn, cur, db, txn, txnStart,
                   dbAtStart, raw, teams, i, resp, summary, upserts, out, exc>>

\* row = {...}; cur.execute(UPSERT_SQL, row); upserts += 1; time.sleep(0.15)
Upsert ==
    /\ pc = "upsert"
    /\ LET row == BuildRow(team_id, season, summary.val, teams[i].code) IN
        /\ txn' = [txn EXCEPT !.stats = UpsertRow(@, row, txnStart)]
        /\ log' = Append(log, Event("upsert", i, row["season"], teams[i].code, ""))
    /\ db' = IF Autocommit THEN txn' ELSE db
    /\ upserts' = CountUpsert(upserts)
    /\ i' = i + 1
    /\ pc' = LoopPc(i + 1, teams)
    /\ UNCHANGED <<runs, clock, today, SEASON, season, conn, cur, txnStart, dbAtStart, raw,
                   teams, resp, summary, team_id, out, exc>>

\* conn.commit()
Commit ==
    /\ pc = "commit"
    /\ db' = txn
    /\ log' = Append(log, Event("commit", i, season, <<>>, ""))
    /\ pc' = "close"
    /\ UNCHANGED <<runs, clock, today, SEASON, season, conn, cur, txn, txnStart, dbAtStart,
                   raw, teams, i, resp, summary, team_id, upserts, out, exc>>

\* cur.close(); conn.close()
Close ==
    /\ pc = "close"
    /\ cur' = "closed"
    /\ conn' = "closed"
    /\ pc' = "print"
    /\ UNCHANGED <<runs, clock, today, SEASON, season, db, txn, txnStart, dbAtStart, raw,
                   teams, i, resp, summary, team_id, upserts, out, exc, log>>

\* print(f"Upserted stats for {upserts} teams for season {season}")
PrintSummary ==
    /\ pc = "print"
    /\ out' = [some |-> TRUE, n |-> upserts, season |-> season]
    /\ log' = Append(log, Event("print", i, season, <<>>, ""))
    /\ pc' = "done"
    /\ UNCHANGED <<runs, clock, today, SEASON, season, conn, cur, db, txn, txnStart,
                   dbAtStart, raw, teams, i, resp, summary, team_id, upserts, exc>>

StartRun == Start(RunDates, RunEnvs)
FetchTeamsRun == FetchTeams(RunDirExchanges)
FetchStatsRun == FetchStats(RunStatExchanges)

Next ==
    \/ StartRun
    \/ Connect
    \/ CreateExtension
    \/ DbError
    \/ FetchTeamsRun
    \/ FetchStatsRun
    \/ Lookup
    \/ Upsert
    \/ Commit
    \/ Close
    \/ PrintSummary

\* runs of the whole program, one after the other
Spec == Init /\ [][Next]_vars

(***************************************************************************)
(* The season resolver alone, over every date and environment value.       *)
(***************************************************************************)
StartAny == Start(AllDates, AllEnvs)

SpecSeason == Init /\ [][StartAny]_vars

(***************************************************************************)
(* The directory fetcher alone, over every raw list: the run has connected *)
(* and opened its transaction.                                             *)
(***************************************************************************)
InitDir ==
    /\ pc = "dir"
    /\ runs = 1
    /\ clock = 0
    /\ today = Date(2025, 7)
    /\ SEASON = SNull
    /\ season = ResolveSeason(SNull, Date(2025, 7))
    /\ conn = "open"
    /\ cur = "open"
    /\ db = [ext |-> FALSE, stats |-> {}]
    /\ txn = [ext |-> TRUE, stats |-> {}]
    /\ txnStart = 0
    /\ dbAtStart = [ext |-> FALSE, stats |-> {}]
    /\ raw = <<>>
    /\ teams = <<>>
    /\ i = 1
    /\ resp = NoExchange
    /\ summary = NoSummary
    /\ team_id = <<>>
    /\ upserts = 0
    /\ out = NoOut
    /\ exc = "none"
    /\ log = <<>>

FetchTeamsAny == FetchTeams(AllDirExchanges)

SpecDir == InitDir /\ [][FetchTeamsAny]_vars

(***************************************************************************)
(* The stat fetcher alone, over every body: the run is at its first team.  *)
(***************************************************************************)
InitMap ==
    /\ pc = "fetch"
    /\ runs = 1
    /\ clock = 0
    /\ today = Date(2025, 7)
    /\ SEASON = SNull
    /\ season = ResolveSeason(SNull, Date(2025, 7))
    /\ conn = "open"
    /\ cur = "open"
    /\ db = [ext |-> FALSE, stats |-> {}]
    /\ txn = [ext |-> TRUE, stats |-> {}]
    /\ txnStart = 0
    /\ dbAtStart = [ext |-> FALSE, stats |-> {}]
    /\ raw = <<EntryBos>>
    /\ teams = fetch_active_teams(<<EntryBos>>)
    /\ i = 1
    /\ resp = OkExchange(<<EntryBos>>)
    /\ summary = NoSummary
    /\ team_id = <<>>
    /\ upserts = 0
    /\ out = NoOut
    /\ exc = "none"
    /\ log = <<>>

FetchStatsAny == FetchStats(AllStatExchanges)

SpecMap == InitMap /\ [][FetchStatsAny]_vars

(***************************************************************************)
(* Properties.                                                             *)
(***************************************************************************)
Events(l, op) == {k \in DOMAIN l : l[k].op = op}
FetchesGot(l, got) == {k \in Events(l, "fetch") : l[k].got = got}
BeforeCommit == {"idle", "connect", "ext", "dir", "fetch", "lookup", "upsert", "commit", "aborted"}
AfterCommit == {"close", "print", "done"}

\* C1: a run is all-or-nothing: until the commit, and after an abort, the
\* persisted database is what it was when the run started, whatever upserts
\* the run executed; there is at most one commit, it happens only after every
\* team of the directory has had its stats fetched, and it persists the
\* transaction's writes together.
C1_AllOrNothing ==
    /\ Cardinality(Events(log, "commit")) <= 1
    /\ pc \in BeforeCommit => db = dbAtStart /\ Events(log, "commit") = {}
    /\ pc \in AfterCommit =>
        /\ Cardinality(Events(log, "commit")) = 1
        /\ db = txn
        /\ \A t \in DOMAIN teams : \E k \in Events(log, "fetch") :
              /\ log[k].idx = t
              /\ \A c \in Events(log, "commit") : k < c

C1_Witness ==
    /\ pc = "aborted"
    /\ Events(log, "upsert") # {}
    /\ txn.stats # db.stats
    /\ db = dbAtStart

Unique(table) == \A r1 \in table, r2 \in table : SameKey(r1, r2) => r1 = r2

\* C2: the stats table, persisted or in the transaction, never holds two rows
\* with the same (team_id, season); an upsert for a key that exists keeps the
\* number of rows, leaves in the row the new value of every non-key column,
\* and an ingested_at that is >= the one the row had.
C2_UpsertIdempotent ==
    [][/\ Unique(db'.stats)
       /\ Unique(txn'.stats)
       /\ (pc = "upsert" /\ pc' # "aborted") =>
            LET row == BuildRow(team_id, season, summary.val, teams[i].code)
                old == {r \in txn.stats : SameKey(r, row)}
                new == {r \in txn'.stats : SameKey(r, row)} IN
            /\ Cardinality(new) = 1
            /\ \A r \in new : \A c \in Columns \ {"ingested_at"} : r[c] = row[c]
            /\ old # {} =>
                /\ Cardinality(txn'.stats) = Cardinality(txn.stats)
                /\ \A r \in new, q \in old : r["ingested_at"] >= q["ingested_at"]]_vars

C2_Witness ==
    /\ pc \in {"fetch", "commit"}
    /\ \E q \in db.stats, r \in txn.stats :
        /\ SameKey(q, r)
        /\ \A c \in SetCols : q[c] = r[c]
        /\ q["gp"] = JInt(10)
        /\ r["ingested_at"] > q["ingested_at"]

NoWorkForSkipped(l) ==
    \A a \in FetchesGot(l, "none"), b \in Events(l, "lookup") \cup Events(l, "upsert") :
        l[b].idx # l[a].idx

\* C3: when the stats fetcher returns its empty result for a team (as it does
\* on a not-found response), the step executes no lookup and no upsert for
\* that team, leaves the counter, the transaction and the persisted database
\* unchanged, and the loop goes on to the next team.
C3_SkipLeavesRowUntouched ==
    [][/\ NoWorkForSkipped(log')
       /\ (pc = "fetch" /\ resp'.fail = "none" /\ resp'.status = 404) =>
            pc' # "aborted" /\ ~summary'.some
       /\ (pc = "fetch" /\ pc' # "aborted" /\ ~summary'.some) =>
            /\ txn' = txn
            /\ db' = db
            /\ upserts' = upserts
            /\ i' = i + 1
            /\ pc' = LoopPc(i + 1, teams)]_vars

C3_Witness ==
    /\ pc = "done"
    /\ FetchesGot(log, "none") # {}
    /\ resp = NotFound
    /\ db.stats # {}
    /\ db.stats = dbAtStart.stats
    /\ upserts = 0

\* C4: a stats fetch that fails otherwise than with a client/not-found style
\* error (a server-error status, a connection failure, a timeout) aborts the
\* run at that team, and nothing is committed.
C4_OtherFailuresFatal ==
    (/\ log # <<>>
     /\ log[Len(log)].op = "fetch"
     /\ (resp.fail # "none" \/ resp.status >= 500))
    => pc = "aborted" /\ db = dbAtStart

\* C5: the printed count is the number of upserts the run executed and the
\* number of teams whose stats fetch returned a non-empty result; the summary
\* is printed after the commit; the season it names is the season of every
\* fetch and of every row upserted in the run.
C5_SummaryCount ==
    out.some =>
        /\ out.n = Cardinality(Events(log, "upsert"))
        /\ out.n = Cardinality(FetchesGot(log, "data"))
        /\ \A t \in DOMAIN teams : Cardinality({k \in Events(log, "fetch") : log[k].idx = t}) = 1
        /\ \E c \in Events(log, "commit") : \A p \in Events(log, "print") : c < p
        /\ db = txn
        /\ out.season = season
        /\ \A k \in Events(log, "fetch") \cup Events(log, "upsert") : log[k].season = out.season

C5_Witness ==
    /\ out.some
    /\ out.n = 1
    /\ Len(teams) = 2
    /\ FetchesGot(log, "none") # {}

RECURSIVE ParseInt(_)
ParseInt(s) ==
    IF s = <<>> THEN 0
    ELSE 10 * ParseInt(SubSeq(s, 1, Len(s) - 1))
         + (CHOOSE d \in 0..9 : DigitChars[d + 1] = s[Len(s)])

\* C6: a non-empty NHL_SEASON is the season, whatever the date; otherwise the
\* season is the four digits of Y followed by those of Y+1 for a month in
\* 7..12 of year Y, and those of Y-1 followed by those of Y for a month in 1..6.
C6_SeasonResolver ==
    pc = "connect" =>
        IF SEASON.t = "str" /\ SEASON.v # <<>>
        THEN season = SEASON.v
        ELSE LET first == IF today.month \in 7..12 THEN today.year ELSE today.year - 1 IN
             /\ today.month \in 1..12
             /\ Len(season) = 8
             /\ \A k \in 1..8 : season[k] \in Range(DigitChars)
             /\ ParseInt(SubSeq(season, 1, 4)) = first
             /\ ParseInt(SubSeq(season, 5, 8)) = first + 1

C6_Witness ==
    /\ pc = "connect"
    /\ SEASON = SStr(<<>>)
    /\ today = Date(2026, 6)
    /\ season = <<"2","0","2","5","2","0","2","6">>

Present(d, k) == k \in DOMAIN d /\ d[k].t = "int"
FirstPresent(d, k1, k2) ==
    IF Present(d, k1) THEN d[k1] ELSE IF Present(d, k2) THEN d[k2] ELSE JNull

\* C7: for a response whose values are integers (0 included), ot is the value
\* of otLosses when present, else of overtimeLosses, else null; row is the
\* value of regulationPlusOtWins when present, else of row, else null.
C7_FirstPresentWins ==
    (pc = "lookup" /\ \A k \in DOMAIN resp.body : resp.body[k].t = "int") =>
        /\ summary.val["ot"] = FirstPresent(resp.body, "otLosses", "overtimeLosses")
        /\ summary.val["row"] = FirstPresent(resp.body, "regulationPlusOtWins", "row")

\* where the exception that ended the run was raised
RaisedAt == IF log[Len(log)].op = "fetch" THEN "fetch" ELSE log[Len(log)].got

\* C8: once the connection is open, a run that has ended, normally or by an
\* error of the directory fetch, a stats fetch, the identifier lookup, an upsert
\* or the commit, has closed its cursor and its connection.
C8_AlwaysClosed ==
    (\/ pc = "done"
     \/ pc = "aborted" /\ RaisedAt \in {"dir", "fetch", "lookup", "upsert", "commit"})
    => cur = "closed" /\ conn = "closed"

\* a field is missing from an entry when it is absent, null or the empty string
HasField(t, k) == k \in DOMAIN t /\ t[k].t = "str" /\ t[k].v # <<>>
FirstName(t) ==
    IF HasField(t, "fullName") THEN t["fullName"].v
    ELSE IF HasField(t, "name") THEN t["name"].v
    ELSE t["teamName"].v
WellFormed(t) ==
    /\ HasField(t, "triCode")
    /\ HasField(t, "fullName") \/ HasField(t, "name") \/ HasField(t, "teamName")
IsLowerOf(lo, s) ==
    /\ Len(lo) = Len(s)
    /\ \A k \in DOMAIN s :
        IF \E u \in DOMAIN UpperAlpha : UpperAlpha[u] = s[k]
        THEN \E u \in DOMAIN UpperAlpha : UpperAlpha[u] = s[k] /\ LowerAlpha[u] = lo[k]
        ELSE lo[k] = s[k]

\* C9: the teams returned are the raw entries that have a code and a name, in
\* the order of the source, each with its code lowercased and the first
\* non-missing of fullName, name, teamName as its name; the other entries are
\* dropped without an error.
C9_DirectoryFilter ==
    pc # "dir" =>
        LET keep == {k \in DOMAIN raw : WellFormed(raw[k])}
            nth(j) == CHOOSE k \in keep : Cardinality({m \in keep : m <= k}) = j IN
        /\ pc # "aborted"
        /\ Len(teams) = Cardinality(keep)
        /\ Len(teams) = Len(raw) - Cardinality({k \in DOMAIN raw : ~WellFormed(raw[k])})
        /\ \A j \in DOMAIN teams :
            /\ teams[j].name = FirstName(raw[nth(j)])
            /\ IsLowerOf(teams[j].code, raw[nth(j)]["triCode"].v)

C9_Witness ==
    /\ pc # "dir"
    /\ Len(raw) = 2
    /\ DOMAIN raw[1] = {"triCode"}
    /\ Len(teams) = 1
    /\ teams[1] = [code |-> <<"m","t","l">>, name |-> <<"C">>]

\* C10: a stats request that returns successfully yields a summary with the
\* 21 stat keys, ties null and every key whose source fields are all absent
\* null, and leads to the identifier lookup whatever the body holds; every
\* team the loop has passed whose fetch returned data has exactly one upsert,
\* which is counted, and the upsert leaves the summary's values (nulls
\* included) in the row of that team and season.
C10_SuccessAlwaysUpserts ==
    [][/\ (pc = "fetch" /\ nhl_get(resp') = "none") =>
            /\ pc' = "lookup"
            /\ summary'.some
            /\ DOMAIN summary'.val = StatKeys
            /\ Cardinality(DOMAIN summary'.val) = 21
            /\ summary'.val["ties"] = JNull
            /\ \A k \in StatKeys :
                (\A n \in DOMAIN SourceNames[k] : SourceNames[k][n] \notin DOMAIN resp'.body)
                    => summary'.val[k] = JNull
       /\ pc' # "aborted" =>
            /\ upserts' = Cardinality(Events(log', "upsert"))
            /\ \A k \in FetchesGot(log', "data") :
                 log'[k].idx < i' =>
                    Cardinality({u \in Events(log', "upsert") : log'[u].idx = log'[k].idx}) = 1
       /\ (pc = "upsert" /\ pc' # "aborted") =>
            \E r \in txn'.stats :
                /\ r["team_id"] = team_id
                /\ r["season"] = season
                /\ \A k \in StatKeys : r[k] = summary.val[k]]_vars

C10_Witness ==
    /\ pc = "done"
    /\ \E q \in dbAtStart.stats, r \in db.stats :
        /\ SameKey(q, r)
        /\ q["gp"] = JInt(10)
        /\ \A k \in StatKeys : r[k] = JNull

====
